---- MODULE Spec2Model ----
(***************************************************************************)
(* A model of download_api2_xls_fixed.py: one run of main() (fetch the     *)
(* CSE detailed-trades JSON, extract the row list, build a table, write    *)
(* the spreadsheet, prettify it), together with the two helper functions   *)
(* _extract_rows and _prettify_excel.                                      *)
(*                                                                         *)
(* Text is a tuple of one-character strings, so that str.lower(), float()  *)
(* and len(str()) are computed, not assumed.  Real numbers are fixed point *)
(* with Scale units per 1 (four decimals); every number of the model has   *)
(* at most two decimals, so the division by 100 is exact.                  *)
(***************************************************************************)
EXTENDS Integers, Sequences, FiniteSets, TLC

VARIABLES
    pc,              \* position of the run inside the module / main()
    lib,             \* environment: how much of openpyxl can be imported
    openpyxl,        \* the module-level name: TRUE = the module, FALSE = None
    requests,        \* HTTP requests issued so far, in order, each with the
                     \* status it was answered with (0: it raised)
    r,               \* the response main() currently holds
    payload,         \* r.json()
    preferred_keys,  \* the preferred_keys argument of _extract_rows
    rows,            \* result of _extract_rows
    df,              \* the DataFrame
    file,            \* the output file on disk, as this run left it
    error,           \* the exception that ended the run, or "none"
    out,             \* lines printed on stdout
    trace            \* the stages that completed, in order (history)

vars == <<pc, lib, openpyxl, requests, r, payload, preferred_keys, rows, df,
          file, error, out, trace>>

-----------------------------------------------------------------------------
(* Bounds of the model *)

\* largest number of entries in a generated mapping payload
MaxKeys == 2
\* largest length of a generated preferred-key list
MaxPref == 2
\* largest number of records in a generated record list
MaxRecs == 2
\* largest number of keys in a generated record
MaxFields == 2
\* how many rows beyond the scan cap the largest generated sheet has
ExtraRows == 2

-----------------------------------------------------------------------------
(* Text *)

K_detailedTrades == <<"d", "e", "t", "a", "i", "l", "e", "d", "T", "r", "a", "d", "e", "s">>
K_reqDetailedTrades == <<"r", "e", "q", "D", "e", "t", "a", "i", "l", "e", "d", "T", "r", "a", "d", "e", "s">>
K_data == <<"d", "a", "t", "a">>
K_foo == <<"f", "o", "o">>
N_changepercentage == <<"c", "h", "a", "n", "g", "e", "p", "e", "r", "c", "e", "n", "t", "a", "g", "e">>
N_change_percentage == <<"c", "h", "a", "n", "g", "e", "_", "p", "e", "r", "c", "e", "n", "t", "a", "g", "e">>
N_changepercent == <<"c", "h", "a", "n", "g", "e", "p", "e", "r", "c", "e", "n", "t">>
N_change_pct == <<"c", "h", "a", "n", "g", "e", "_", "p", "c", "t">>
H_symbol == <<"s", "y", "m", "b", "o", "l">>
H_changePercentage == <<"c", "h", "a", "n", "g", "e", "P", "e", "r", "c", "e", "n", "t", "a", "g", "e">>
H_CHANGE_PCT == <<"C", "H", "A", "N", "G", "E", "_", "P", "C", "T">>
H_price == <<"p", "r", "i", "c", "e">>
H_a == <<"a">>
H_b == <<"b">>
H_c == <<"c">>
T_ABC == <<"A", "B", "C">>
T_NA == <<"N", "/", "A">>
T_1_23 == <<"1", ".", "2", "3">>
T_m7_97 == <<"-", "7", ".", "9", "7">>
T_bar == <<"b", "a", "r">>
\* a text of n characters
T_long(n) == [i \in 1..n |-> "x"]

UpperLetters == <<"A", "B", "C", "D", "E", "F", "G", "H", "I", "J", "K", "L", "M", "N", "O", "P", "Q", "R", "S", "T", "U", "V", "W", "X", "Y", "Z">>
LowerLetters == <<"a", "b", "c", "d", "e", "f", "g", "h", "i", "j", "k", "l", "m", "n", "o", "p", "q", "r", "s", "t", "u", "v", "w", "x", "y", "z">>
Digits == <<"0", "1", "2", "3", "4", "5", "6", "7", "8", "9">>

\* index of x in the tuple s, 0 when absent
IndexOf(s, x) ==
    IF \E i \in 1..Len(s) : s[i] = x
    THEN CHOOSE i \in 1..Len(s) : s[i] = x /\ \A j \in 1..(i - 1) : s[j] # x
    ELSE 0

Range(s) == {s[i] : i \in 1..Len(s)}

\* str.lower()
Lower(s) ==
    [i \in 1..Len(s) |->
        IF IndexOf(UpperLetters, s[i]) > 0
        THEN LowerLetters[IndexOf(UpperLetters, s[i])]
        ELSE s[i]]

-----------------------------------------------------------------------------
(* JSON / Python values: k is the type, n the number (an int, or a float   *)
(* in fixed point), s the text, items the elements of a list or the        *)
(* (key, value) pairs of a dict in iteration order.                        *)

Scale == 100 * 100

JVal(k, n, s, items) == [k |-> k, n |-> n, s |-> s, items |-> items]
None == JVal("none", 0, <<>>, <<>>)
NaN == JVal("nan", 0, <<>>, <<>>)
JInt(n) == JVal("int", n, <<>>, <<>>)
JFloat(n) == JVal("float", n, <<>>, <<>>)
JStr(s) == JVal("str", 0, s, <<>>)
JList(xs) == JVal("list", 0, <<>>, xs)
JDict(kvs) == JVal("dict", 0, <<>>, kvs)
Unset == JVal("unset", 0, <<>>, <<>>)

IsList(v) == v.k = "list"
IsDict(v) == v.k = "dict"

Keys(d) == [i \in 1..Len(d.items) |-> d.items[i][1]]

\* dict.get(k): the value stored under k, None when k is absent
DictGet(d, k) ==
    IF IndexOf(Keys(d), k) > 0 THEN d.items[IndexOf(Keys(d), k)][2] ELSE None

-----------------------------------------------------------------------------
(* _extract_rows *)

\* faulty variant: "if isinstance(v, list) and v": an empty list is passed over
RECURSIVE PreferredScan_SkipEmpty(_, _, _)
PreferredScan_SkipEmpty(d, keys, i) ==
    IF i > Len(keys) THEN Unset
    ELSE IF IsList(DictGet(d, keys[i])) /\ DictGet(d, keys[i]).items # <<>>
    THEN DictGet(d, keys[i])
    ELSE PreferredScan_SkipEmpty(d, keys, i + 1)

\* for k in preferred_keys: v = payload.get(k); if isinstance(v, list): return v
RECURSIVE PreferredScan(_, _, _)
PreferredScan(d, keys, i) ==
    IF i > Len(keys) THEN Unset
    ELSE IF IsList(DictGet(d, keys[i])) THEN DictGet(d, keys[i])
    ELSE PreferredScan(d, keys, i + 1)

\* for v in payload.values(): if isinstance(v, list): return v
RECURSIVE ValuesScan(_, _)
ValuesScan(d, i) ==
    IF i > Len(d.items) THEN Unset
    ELSE IF IsList(d.items[i][2]) THEN d.items[i][2]
    ELSE ValuesScan(d, i + 1)

\* faulty variant: the values are scanned before the preferred keys
_extract_rows_ValuesFirst(p, keys) ==
    IF IsList(p) THEN p
    ELSE IF IsDict(p) /\ ValuesScan(p, 1) # Unset THEN ValuesScan(p, 1)
    ELSE IF IsDict(p) /\ PreferredScan(p, keys, 1) # Unset THEN PreferredScan(p, keys, 1)
    ELSE JList(<<>>)

_extract_rows(p, keys) ==
    IF IsList(p) THEN p
    ELSE IF IsDict(p) /\ PreferredScan(p, keys, 1) # Unset THEN PreferredScan(p, keys, 1)
    ELSE IF IsDict(p) /\ ValuesScan(p, 1) # Unset THEN ValuesScan(p, 1)
    ELSE JList(<<>>)

-----------------------------------------------------------------------------
(* Python conversions *)

RECURSIVE Pow10(_)
Pow10(e) == IF e = 0 THEN 1 ELSE 10 * Pow10(e - 1)

Abs(n) == IF n < 0 THEN 0 - n ELSE n

IsDigits(s) == \A i \in 1..Len(s) : IndexOf(Digits, s[i]) > 0

RECURSIVE DigitsVal(_)
DigitsVal(s) ==
    IF s = <<>> THEN 0
    ELSE 10 * DigitsVal(SubSeq(s, 1, Len(s) - 1)) + (IndexOf(Digits, s[Len(s)]) - 1)

\* float(text) for decimal literals: [sign] digits [. digits], at least one
\* digit.  Any other text of the model raises ValueError (the model holds no
\* "inf", "nan", exponent, blank or underscore texts).
FloatOfText(s) ==
    LET signed == Len(s) > 0 /\ s[1] \in {"-", "+"}
        body == IF signed THEN Tail(s) ELSE s
        dot == IndexOf(body, ".")
        ip == IF dot > 0 THEN SubSeq(body, 1, dot - 1) ELSE body
        fp == IF dot > 0 THEN SubSeq(body, dot + 1, Len(body)) ELSE <<>>
        good == IsDigits(ip) /\ IsDigits(fp) /\ Len(ip) + Len(fp) >= 1 /\ Len(fp) <= 4
        mag == DigitsVal(ip) * Scale + DigitsVal(fp) * Pow10(4 - Len(fp))
    IN  IF good
        THEN [ok |-> TRUE, n |-> IF signed /\ s[1] = "-" THEN 0 - mag ELSE mag]
        ELSE [ok |-> FALSE, n |-> 0]

\* float(value): ok = FALSE stands for the ValueError / TypeError
PyFloat(v) ==
    CASE v.k = "int" -> [ok |-> TRUE, n |-> v.n * Scale]
      [] v.k = "float" -> [ok |-> TRUE, n |-> v.n]
      [] v.k = "str" -> FloatOfText(v.s)
      [] OTHER -> [ok |-> FALSE, n |-> 0]

RECURSIVE NumDigits(_)
NumDigits(n) == IF n < 10 THEN 1 ELSE 1 + NumDigits(n \div 10)

\* number of decimals repr(float) shows: trailing zeros dropped, one kept
RECURSIVE FracDigits(_, _)
FracDigits(f, d) ==
    IF f = 0 THEN 1
    ELSE IF f % 10 = 0 /\ d > 1 THEN FracDigits(f \div 10, d - 1)
    ELSE d

\* len(str(value)) of a cell value
StrLen(v) ==
    CASE v.k = "str" -> Len(v.s)
      [] v.k = "int" -> (IF v.n < 0 THEN 1 ELSE 0) + NumDigits(Abs(v.n))
      [] v.k = "float" ->
            (IF v.n < 0 THEN 1 ELSE 0) + NumDigits(Abs(v.n) \div Scale) + 1
            + FracDigits(Abs(v.n) % Scale, 4)
      [] OTHER -> 4

-----------------------------------------------------------------------------
(* pd.DataFrame(rows) for a list of dicts *)

\* the keys of one record appended to the header unless already in it
RECURSIVE AddKeys(_, _, _)
AddKeys(hdr, ks, j) ==
    IF j > Len(ks) THEN hdr
    ELSE AddKeys(IF ks[j] \in Range(hdr) THEN hdr ELSE Append(hdr, ks[j]), ks, j + 1)

\* faulty variant: the keys of the later records come first
RECURSIVE UnionColumns_LastFirst(_, _, _)
UnionColumns_LastFirst(recs, i, hdr) ==
    IF i > Len(recs) THEN hdr
    ELSE AddKeys(UnionColumns_LastFirst(recs, i + 1, hdr), Keys(recs[i]), 1)

RECURSIVE UnionColumns(_, _, _)
UnionColumns(recs, i, hdr) ==
    IF i > Len(recs) THEN hdr
    ELSE UnionColumns(recs, i + 1, AddKeys(hdr, Keys(recs[i]), 1))

\* the value of a record under a column: NaN where the record lacks the key
Lookup(rec, col) ==
    IF col \in Range(Keys(rec)) THEN DictGet(rec, col) ELSE NaN

\* dtype inference of one column: all int -> int64; numbers with missing
\* values or floats -> float64 (ints become floats, None becomes NaN);
\* anything else stays an object column
Coerce(colvals, v) ==
    LET kinds == {colvals[i].k : i \in 1..Len(colvals)}
    IN  IF kinds \subseteq {"int"} THEN v
        ELSE IF kinds \subseteq {"int", "float", "none", "nan"}
                /\ kinds \cap {"int", "float"} # {}
        THEN CASE v.k = "int" -> JFloat(v.n * Scale)
               [] v.k = "none" -> NaN
               [] OTHER -> v
        ELSE v

NoFrame == [built |-> FALSE, columns |-> <<>>, data |-> <<>>]

DataFrame(rs) ==
    LET recs == rs.items
        cols == UnionColumns(recs, 1, <<>>)
        raw == [i \in 1..Len(recs) |-> [j \in 1..Len(cols) |-> Lookup(recs[i], cols[j])]]
        column(j) == [i \in 1..Len(recs) |-> raw[i][j]]
    IN  [built |-> TRUE,
         columns |-> cols,
         data |-> [i \in 1..Len(recs) |->
                      [j \in 1..Len(cols) |-> Coerce(column(j), raw[i][j])]]]

-----------------------------------------------------------------------------
(* The worksheet: rows[1] is the header row, rows[2..] the data rows *)

Cell(v, fmt, font, align) ==
    [value |-> v, number_format |-> fmt, font |-> font, alignment |-> align]

EmptySheet ==
    [rows |-> <<>>, width |-> <<>>, freeze_panes |-> "", auto_filter |-> <<0, 0>>]

NoFile == [state |-> "none", ws |-> EmptySheet]

\* df.to_excel(out_path, index=False, engine="openpyxl"): header row, then one
\* row per record; NaN and None are written as empty cells
to_excel(d) ==
    [rows |->
        [i \in 1..(Len(d.data) + 1) |->
            [j \in 1..Len(d.columns) |->
                IF i = 1
                THEN Cell(JStr(d.columns[j]), "General", "bold", "center")
                ELSE Cell(IF d.data[i - 1][j].k \in {"nan", "none"} THEN None
                          ELSE d.data[i - 1][j],
                          "General", "default", "general")]],
     width |-> [j \in 1..Len(d.columns) |-> 0],
     freeze_panes |-> "",
     auto_filter |-> <<0, 0>>]

max_row(ws) == Len(ws.rows)
NumCols(ws) == IF ws.rows = <<>> THEN 0 ELSE Len(ws.rows[1])

-----------------------------------------------------------------------------
(* _prettify_excel: the formatting of the loaded worksheet *)

ScanCap == 2000
MinWidth == 10
MaxWidth == 45
WidthPad == 2
PercentDivisor == 100

Min(a, b) == IF a < b THEN a ELSE b
Max(a, b) == IF a > b THEN a ELSE b

\* one pass of the loop body: if val is None: continue; s = str(val);
\* if len(s) > max_len: max_len = len(s)
ScanCell(c, max_len) ==
    IF c.value.k = "none" THEN max_len
    ELSE IF StrLen(c.value) > max_len THEN StrLen(c.value)
    ELSE max_len

\* the loop over col_cells[lo..hi] in order, starting from max_len.  The range
\* is split in two halves run one after the other, which is the same
\* left-to-right loop with an evaluation depth of log(hi - lo).
RECURSIVE ScanCells(_, _, _, _, _)
ScanCells(ws, j, lo, hi, max_len) ==
    IF lo > hi THEN max_len
    ELSE IF lo = hi THEN ScanCell(ws.rows[lo][j], max_len)
    ELSE LET mid == (lo + hi) \div 2
             left == ScanCells(ws, j, lo, mid, max_len)
         IN  IF left >= 0 THEN ScanCells(ws, j, mid + 1, hi, left) ELSE left

\* faulty variant: the scan is not capped
ScannedRows_NoCap(ws) == max_row(ws)

\* col_cells[:2000]: the first ScanCap cells of the column, header cell included
ScannedRows(ws) == Min(ScanCap, max_row(ws))

ColumnWidth(ws, j) ==
    LET max_len == ScanCells(ws, j, 1, ScannedRows(ws), 0)
    IN  Min(Max(MinWidth, max_len + WidthPad), MaxWidth)

\* the body of the loop over the data rows of one column
FormatCell(c, name_str, percent_cols) ==
    IF c.value.k = "none" THEN c
    ELSE IF name_str \in Range(percent_cols)
    THEN IF PyFloat(c.value).ok
         THEN [c EXCEPT !.value = JFloat(PyFloat(c.value).n \div PercentDivisor),
                        !.number_format = "0.00%"]
         ELSE c
    ELSE IF c.value.k = "int" THEN [c EXCEPT !.number_format = "#,##0"]
    ELSE IF c.value.k = "float" THEN [c EXCEPT !.number_format = "#,##0.00"]
    ELSE c

HeaderStyle(c) == [c EXCEPT !.font = "bold", !.alignment = "center_center_wrap"]

PrettifySheet(ws, percent_cols) ==
    [rows |->
        [i \in 1..max_row(ws) |->
            [j \in 1..NumCols(ws) |->
                IF i = 1 THEN HeaderStyle(ws.rows[1][j])
                ELSE IF ws.rows[1][j].value.k = "none" THEN ws.rows[i][j]
                ELSE FormatCell(ws.rows[i][j], ws.rows[1][j].value.s, percent_cols)]],
     width |-> [j \in 1..NumCols(ws) |-> ColumnWidth(ws, j)],
     freeze_panes |-> "A2",
     auto_filter |-> <<NumCols(ws), max_row(ws)>>]

PercentNames ==
    {N_changepercentage, N_change_percentage, N_changepercent, N_change_pct}

IsPercentName(c) == Lower(c) \in PercentNames

\* faulty variant: the column name is compared without lower()
PercentCols_CaseSensitive(d) == SelectSeq(d.columns, LAMBDA c : c \in PercentNames)

\* [c for c in df.columns if str(c).lower() in [...]]
PercentCols(d) == SelectSeq(d.columns, IsPercentName)

-----------------------------------------------------------------------------
(* The environment: responses, payloads *)

StatusOK == 200
HTTPErrorMin == 400
HTTPErrorMax == 599

Statuses == {200, 204, 404, 500}
NoResponse == [status |-> 0]

PreferredKeys == <<K_detailedTrades, K_reqDetailedTrades, K_data>>
PayloadKeys == {K_detailedTrades, K_reqDetailedTrades, K_data, K_foo}

Rec(kvs) == JDict(kvs)

L_scenario ==
    JList(<< Rec(<< <<H_symbol, JStr(T_ABC)>>, <<H_changePercentage, JStr(T_1_23)>> >>) >>)
L_ab ==
    JList(<< Rec(<< <<H_a, JInt(1)>>, <<H_b, JInt(2)>> >>),
             Rec(<< <<H_b, JInt(3)>>, <<H_c, JInt(4)>> >>) >>)
L_trades ==
    JList(<< Rec(<< <<H_symbol, JStr(T_ABC)>>, <<H_changePercentage, JFloat(0 - 79700)>>,
                    <<H_price, JInt(1500)>> >>),
             Rec(<< <<H_symbol, JStr(T_long(80))>>, <<H_changePercentage, JStr(T_NA)>> >>),
             Rec(<< <<H_symbol, None>>, <<H_changePercentage, None>>,
                    <<H_price, JFloat(125000)>> >>) >>)
L_pct ==
    JList(<< Rec(<< <<H_CHANGE_PCT, JInt(5)>>, <<N_changepercent, JStr(T_m7_97)>>,
                    <<H_price, JInt(5)>> >>),
             Rec(<< <<H_CHANGE_PCT, JInt(250)>>, <<N_change_percentage, JFloat(12300)>>,
                    <<H_price, JInt(250)>> >>) >>)

CatalogLists == {L_scenario, L_ab, L_trades, L_pct}

\* sequences of distinct elements of S, of length lo..hi
DistinctSeqs(S, lo, hi) ==
    UNION {{q \in [1..n -> S] : \A i, j \in 1..n : i # j => q[i] # q[j]} : n \in lo..hi}

\* a list of records from the key sequences kss: record i stores 10 * i + p
\* under its p-th key
GenList(kss) ==
    JList([i \in 1..Len(kss) |->
              Rec([p \in 1..Len(kss[i]) |-> <<kss[i][p], JInt(10 * i + p)>>])])

GenLists ==
    {GenList(kss) :
        kss \in UNION {[1..n -> DistinctSeqs({H_a, H_b, H_c}, 1, MaxFields)] : n \in 1..MaxRecs}}

MapValues == {JStr(T_bar), JList(<<>>), L_scenario, L_ab}

Mappings ==
    {JDict([i \in 1..Len(ks) |-> <<ks[i], vs[i]>>]) :
        <<ks, vs>> \in UNION {DistinctSeqs(PayloadKeys, n, n) \X [1..n -> MapValues] :
                                 n \in 0..MaxKeys}}

Scalars == {None, JStr(T_bar), JInt(7)}

Payloads == Mappings \cup CatalogLists \cup {JList(<<>>)} \cup Scalars

\* a sheet-sized table of one column: every data row holds a three-character
\* text, except row pos, which holds a thirty-character one
BigFrame(h, n, pos) ==
    [built |-> TRUE,
     columns |-> <<h>>,
     data |-> [i \in 1..n |-> << IF i = pos THEN JStr(T_long(30)) ELSE JStr(T_ABC) >>]]

BigFrames ==
    {BigFrame(h, n, pos) :
        <<h, n, pos>> \in {t \in {H_a, H_changePercentage}
                                 \X ((ScanCap - 3)..(ScanCap - 1 + ExtraRows))
                                 \X {0, 1, ScanCap - 2, ScanCap - 1, ScanCap, ScanCap + 1} :
                              t[3] <= t[2]}}

-----------------------------------------------------------------------------
(* One run of the script *)

Init ==
    /\ pc = "import"
    /\ lib \in {"full", "core", "absent"}
    /\ openpyxl = "unbound"
    /\ requests = <<>>
    /\ r = NoResponse
    /\ payload = Unset
    /\ preferred_keys = PreferredKeys
    /\ rows = Unset
    /\ df = NoFrame
    /\ file = NoFile
    /\ error = "none"
    /\ out = <<>>
    /\ trace = <<>>

Exchange(method, st) == [method |-> method, status |-> st]

\* raise: the run ends with the exception e
Raise(e) == pc' = "failed" /\ error' = e

\* the statement completed: go on at label next
Goto(stage, next) == pc' = next /\ trace' = Append(trace, stage)

\* lines 9-14: "full" imports everything; "core" has the package but not the
\* styles / utils names the script imports (an old openpyxl); "absent" has no
\* package.  Any failure leaves openpyxl = None.
ImportGuard ==
    /\ pc = "import"
    /\ openpyxl' = IF lib = "full" THEN "module" ELSE "none"
    /\ Goto("import", "makedirs")
    /\ UNCHANGED <<lib, requests, r, payload, preferred_keys, rows, df, file, error, out>>

\* line 101
MakeDirs ==
    /\ pc = "makedirs"
    /\ \/ Goto("makedirs", "post") /\ UNCHANGED error
       \/ Raise("OSError") /\ UNCHANGED trace
    /\ UNCHANGED <<lib, openpyxl, requests, r, payload, preferred_keys, rows, df, file, out>>

\* line 103: the POST answers with a status, or raises (timeout, connection)
Post ==
    /\ pc = "post"
    /\ \/ \E st \in Statuses :
              /\ requests' = Append(requests, Exchange("POST", st))
              /\ r' = [status |-> st]
              /\ Goto("post", "status")
              /\ UNCHANGED error
       \/ /\ requests' = Append(requests, Exchange("POST", 0))
          /\ Raise("TransportError")
          /\ UNCHANGED <<r, trace>>
    /\ UNCHANGED <<lib, openpyxl, payload, preferred_keys, rows, df, file, out>>

\* lines 104-105
Get ==
    /\ pc = "status"
    /\ IF r.status # StatusOK
       THEN \/ \E st \in Statuses :
                   /\ requests' = Append(requests, Exchange("GET", st))
                   /\ r' = [status |-> st]
                   /\ Goto("get", "raise_for_status")
                   /\ UNCHANGED error
            \/ /\ requests' = Append(requests, Exchange("GET", 0))
               /\ Raise("TransportError")
               /\ UNCHANGED <<r, trace>>
       ELSE /\ pc' = "raise_for_status"
            /\ UNCHANGED <<requests, r, error, trace>>
    /\ UNCHANGED <<lib, openpyxl, payload, preferred_keys, rows, df, file, out>>

\* Response.raise_for_status(): HTTPError for a 4xx or 5xx status
IsHTTPError(st) == HTTPErrorMin <= st /\ st <= HTTPErrorMax

\* line 106
RaiseForStatus ==
    /\ pc = "raise_for_status"
    /\ IF IsHTTPError(r.status)
       THEN Raise("TransportError") /\ UNCHANGED trace
       ELSE Goto("raise_for_status", "json") /\ UNCHANGED error
    /\ UNCHANGED <<lib, openpyxl, requests, r, payload, preferred_keys, rows, df, file, out>>

\* line 108: the body is some JSON value, or is not JSON
Json ==
    /\ pc = "json"
    /\ \/ \E p \in Payloads :
              payload' = p /\ Goto("json", "extract_rows") /\ UNCHANGED error
       \/ Raise("ParseError") /\ UNCHANGED <<payload, trace>>
    /\ UNCHANGED <<lib, openpyxl, requests, r, preferred_keys, rows, df, file, out>>

\* line 109
ExtractRows ==
    /\ pc = "extract_rows"
    /\ rows' = _extract_rows(payload, preferred_keys)
    /\ Goto("extract_rows", "check_rows")
    /\ UNCHANGED <<lib, openpyxl, requests, r, payload, preferred_keys, df, file, error, out>>

\* faulty variant: the check is "rows is None", which an empty list passes
CheckRows_NoneOnly ==
    /\ pc = "check_rows"
    /\ IF rows = None
       THEN Raise("DataShapeError") /\ UNCHANGED trace
       ELSE Goto("check_rows", "dataframe") /\ UNCHANGED error
    /\ UNCHANGED <<lib, openpyxl, requests, r, payload, preferred_keys, rows, df, file, out>>

\* lines 111-112
CheckRows ==
    /\ pc = "check_rows"
    /\ IF rows.items = <<>>
       THEN Raise("DataShapeError") /\ UNCHANGED trace
       ELSE Goto("check_rows", "dataframe") /\ UNCHANGED error
    /\ UNCHANGED <<lib, openpyxl, requests, r, payload, preferred_keys, rows, df, file, out>>

\* line 114
BuildFrame ==
    /\ pc = "dataframe"
    /\ df' = DataFrame(rows)
    /\ Goto("dataframe", "to_excel")
    /\ UNCHANGED <<lib, openpyxl, requests, r, payload, preferred_keys, rows, file, error, out>>

PartialFile == [state |-> "partial", ws |-> EmptySheet]

\* faulty variant: the writer creates the output file before it looks for its engine
ToExcel_OpenFirst ==
    /\ pc = "to_excel"
    /\ IF lib = "absent"
       THEN Raise("ImportError") /\ file' = PartialFile /\ UNCHANGED trace
       ELSE \/ /\ file' = [state |-> "unformatted", ws |-> to_excel(df)]
               /\ Goto("to_excel", "prettify")
               /\ UNCHANGED error
            \/ /\ Raise("WriteError")
               /\ file' \in {NoFile, PartialFile}
               /\ UNCHANGED trace
    /\ UNCHANGED <<lib, openpyxl, requests, r, payload, preferred_keys, rows, df, out>>

\* lines 116-118: the writer needs the openpyxl package; the write itself may
\* fail, before the file is opened or after
ToExcel ==
    /\ pc = "to_excel"
    /\ IF lib = "absent"
       THEN Raise("ImportError") /\ UNCHANGED <<file, trace>>
       ELSE \/ /\ file' = [state |-> "unformatted", ws |-> to_excel(df)]
               /\ Goto("to_excel", "prettify")
               /\ UNCHANGED error
            \/ /\ Raise("WriteError")
               /\ file' \in {NoFile, PartialFile}
               /\ UNCHANGED trace
    /\ UNCHANGED <<lib, openpyxl, requests, r, payload, preferred_keys, rows, df, out>>

\* lines 38-95, called with the file and percent_cols
_prettify_excel(percent_cols) ==
    IF openpyxl # "module"
    THEN Goto("prettify_skipped", "print") /\ UNCHANGED <<file, error>>
    ELSE \/ /\ file' = [state |-> "formatted", ws |-> PrettifySheet(file.ws, percent_cols)]
            /\ Goto("prettify", "print")
            /\ UNCHANGED error
         \/ \* load_workbook fails
            /\ Raise("FormatError")
            /\ UNCHANGED <<file, trace>>
         \/ \* wb.save fails, having rewritten part of the file
            /\ Raise("FormatError")
            /\ file' = PartialFile
            /\ UNCHANGED trace

\* lines 120-121
Prettify ==
    /\ pc = "prettify"
    /\ _prettify_excel(PercentCols(df))
    /\ UNCHANGED <<lib, openpyxl, requests, r, payload, preferred_keys, rows, df, out>>

\* faulty variant: the status line is printed before the formatting pass
PrintSaved_BeforePrettify ==
    /\ pc = "prettify"
    /\ out' = Append(out, [path |-> "cse_detailed_trades", rows |-> Len(df.data)])
    /\ Goto("print", "done")
    /\ UNCHANGED <<lib, openpyxl, requests, r, payload, preferred_keys, rows, df, file, error>>

\* line 123
PrintSaved ==
    /\ pc = "print"
    /\ out' = Append(out, [path |-> "cse_detailed_trades", rows |-> Len(df.data)])
    /\ Goto("print", "done")
    /\ UNCHANGED <<lib, openpyxl, requests, r, payload, preferred_keys, rows, df, file, error>>

Next ==
    \/ ImportGuard
    \/ MakeDirs
    \/ Post
    \/ Get
    \/ RaiseForStatus
    \/ Json
    \/ ExtractRows
    \/ CheckRows
    \/ BuildFrame
    \/ ToExcel
    \/ Prettify
    \/ PrintSaved

Spec == Init /\ [][Next]_vars

-----------------------------------------------------------------------------
(* _extract_rows on its own: any payload, any preferred-key list *)

PrefLists == DistinctSeqs(PayloadKeys, 0, MaxPref)

InitExtract ==
    /\ pc = "extract_rows"
    /\ lib = "full"
    /\ openpyxl = "module"
    /\ requests = <<Exchange("POST", StatusOK)>>
    /\ r = [status |-> StatusOK]
    /\ payload \in Payloads
    /\ preferred_keys \in PrefLists
    /\ rows = Unset
    /\ df = NoFrame
    /\ file = NoFile
    /\ error = "none"
    /\ out = <<>>
    /\ trace = <<"import", "makedirs", "post", "raise_for_status", "json">>

SpecExtract == InitExtract /\ [][ExtractRows]_vars

-----------------------------------------------------------------------------
(* The table construction on its own: any list of records *)

InitTable ==
    /\ pc = "dataframe"
    /\ lib \in {"full", "core", "absent"}
    /\ openpyxl = IF lib = "full" THEN "module" ELSE "none"
    /\ requests = <<Exchange("POST", StatusOK)>>
    /\ r = [status |-> StatusOK]
    /\ payload \in CatalogLists \cup GenLists
    /\ preferred_keys = PreferredKeys
    /\ rows = payload
    /\ df = NoFrame
    /\ file = NoFile
    /\ error = "none"
    /\ out = <<>>
    /\ trace = <<"import", "makedirs", "post", "raise_for_status", "json",
                 "extract_rows", "check_rows">>

SpecTable == InitTable /\ [][BuildFrame \/ ToExcel]_vars

-----------------------------------------------------------------------------
(* _prettify_excel on its own: any written table, sheets longer than the   *)
(* scan cap included                                                       *)

InitFormat ==
    /\ pc = "prettify"
    /\ lib \in {"full", "core"}
    /\ openpyxl = IF lib = "full" THEN "module" ELSE "none"
    /\ requests = <<Exchange("POST", StatusOK)>>
    /\ r = [status |-> StatusOK]
    /\ payload = Unset
    /\ preferred_keys = PreferredKeys
    /\ rows = Unset
    /\ df \in {DataFrame(l) : l \in CatalogLists \cup GenLists} \cup BigFrames
    /\ file = [state |-> "unformatted", ws |-> to_excel(df)]
    /\ error = "none"
    /\ out = <<>>
    /\ trace = <<"import", "makedirs", "post", "raise_for_status", "json",
                 "extract_rows", "check_rows", "dataframe", "to_excel">>

SpecFormat == InitFormat /\ [][Prettify]_vars

-----------------------------------------------------------------------------
(* Properties of the fetcher *)

\* the stage has completed
Done(stage) == stage \in Range(trace)

\* the fetch is over: line 106, raise_for_status, has run or a request raised
FetchOver == requests # <<>> /\ pc \notin {"status", "raise_for_status"}

\* C1: the run issues a POST first; it issues a GET exactly when the POST was
\* answered with a status other than 200; it never issues more than two
\* requests; and when the response it holds after the fallback has a status
\* other than 200 (so when both POST and GET answered with one), the run ends
\* with the transport error and never parses a body.
C1_FallbackThenTransportError ==
    /\ requests # <<>> => requests[1].method = "POST"
    /\ Len(requests) <= 2
    /\ (FetchOver /\ requests[1].status # 0) =>
           ((\E i \in 1..Len(requests) : requests[i].method = "GET")
               <=> requests[1].status # StatusOK)
    /\ (FetchOver /\ r.status # StatusOK) =>
           (pc = "failed" /\ error = "TransportError" /\ payload = Unset)

-----------------------------------------------------------------------------
(* Properties of the run's outcome *)

\* C2, as claimed: a run that ended in a fatal error has produced no output
\* file.
C2_NoFileOnAnyFailure == pc = "failed" => file.state = "none"

\* C2, amended: a run that ended in an error raised before the writer opens
\* the output file (directory, transport, JSON, empty row-set, missing writer
\* package) has produced no file; a run that failed while formatting has left
\* a file behind; a completed run has left a spreadsheet, formatted or not.
C2_NoFileOnEarlyFailure ==
    /\ error \in {"OSError", "TransportError", "ParseError", "DataShapeError", "ImportError"}
           => file.state = "none"
    /\ error = "FormatError" => file.state \in {"unformatted", "partial"}
    /\ pc = "done" => file.state \in {"formatted", "unformatted"}

\* the payload {"foo": "bar"} ended the run with the no-rows error, no file
C2_Witness ==
    /\ pc = "failed"
    /\ error = "DataShapeError"
    /\ payload = JDict(<< <<K_foo, JStr(T_bar)>> >>)
    /\ file.state = "none"

\* C4: with openpyxl unavailable at the import guard the run raises no error
\* on account of it, and a run that completes leaves the unformatted
\* spreadsheet of the construction phase.
C4_DegradesSilently ==
    openpyxl = "none" =>
        /\ error # "ImportError"
        /\ pc = "done" => file.state = "unformatted"
        /\ Done("to_excel") => ~Done("prettify")

\* the row check of line 111 has been made
RowsChecked == rows # Unset /\ pc # "check_rows"

NoListAnywhere(p) ==
    /\ ~IsList(p)
    /\ IsDict(p) => \A i \in 1..Len(p.items) : ~IsList(p.items[i][2])

\* C5: the run ends with the no-rows error exactly when the extracted sequence
\* is empty; a payload without any list (a mapping without list values, a
\* scalar, null) extracts to the empty sequence; the error is raised before a
\* table is built or a file written.
C5_NoRowsExactlyWhenEmpty ==
    /\ error = "DataShapeError" => (rows.items = <<>> /\ df = NoFrame /\ file.state = "none")
    /\ (RowsChecked /\ rows.items = <<>>) => (pc = "failed" /\ error = "DataShapeError")
    /\ (RowsChecked /\ rows.items # <<>>) => error # "DataShapeError"
    /\ (rows # Unset /\ NoListAnywhere(payload)) => rows = JList(<<>>)

\* a mapping without list values ended the run with the no-rows error
C5_Witness ==
    /\ pc = "failed"
    /\ error = "DataShapeError"
    /\ payload = JDict(<< <<K_data, JStr(T_bar)>>, <<K_foo, JStr(T_bar)>> >>)
    /\ rows = JList(<<>>)

-----------------------------------------------------------------------------
(* Properties of _extract_rows *)

Least(S) == CHOOSE x \in S : \A y \in S : x <= y

\* positions of the preferred-key list whose key is in the mapping with a list
PreferredHits(p, keys) ==
    {i \in 1..Len(keys) :
        \E j \in 1..Len(p.items) : p.items[j][1] = keys[i] /\ IsList(p.items[j][2])}

\* positions of the mapping that hold a list
ListEntries(p) == {j \in 1..Len(p.items) : IsList(p.items[j][2])}

ValueUnder(p, key) == p.items[CHOOSE j \in 1..Len(p.items) : p.items[j][1] = key][2]

\* the first sequence of a mapping: under the first preferred key that holds
\* one, else the first one in iteration order
FirstSequence(p, keys) ==
    IF PreferredHits(p, keys) # {}
    THEN ValueUnder(p, keys[Least(PreferredHits(p, keys))])
    ELSE p.items[Least(ListEntries(p))][2]

\* C3: _extract_rows returns the payload itself when it is a sequence; for a
\* mapping, the value of the first preferred key, in preferred-key order, that
\* holds a sequence, else the first sequence-valued entry in iteration order;
\* else the empty sequence.
C3_FirstMatch ==
    pc = "check_rows" =>
        CASE IsList(payload) -> rows = payload
          [] IsDict(payload) /\ PreferredHits(payload, preferred_keys) # {} ->
                rows = ValueUnder(payload,
                                  preferred_keys[Least(PreferredHits(payload, preferred_keys))])
          [] IsDict(payload) /\ PreferredHits(payload, preferred_keys) = {}
                /\ ListEntries(payload) # {} ->
                rows = payload.items[Least(ListEntries(payload))][2]
          [] OTHER -> rows = JList(<<>>)

\* two preferred keys hold sequences, in the mapping in the other order: the
\* preferred-key order decided
C3_Witness ==
    /\ pc = "check_rows"
    /\ payload = JDict(<< <<K_data, L_ab>>, <<K_detailedTrades, L_scenario>> >>)
    /\ preferred_keys = <<K_detailedTrades, K_data>>
    /\ rows = L_scenario

\* C10: when the first sequence of a mapping is empty, _extract_rows returns
\* it and the run ends with the no-rows error, whatever the other entries of
\* the mapping hold.
C10_NeverLooksPastFirst ==
    (IsDict(payload) /\ RowsChecked
        /\ PreferredHits(payload, preferred_keys) \cup ListEntries(payload) # {}
        /\ FirstSequence(payload, preferred_keys) = JList(<<>>)) =>
            (rows = JList(<<>>) /\ pc = "failed" /\ error = "DataShapeError")

\* the first preferred key holds an empty list, a later one a list of records
C10_Witness ==
    /\ pc = "failed"
    /\ error = "DataShapeError"
    /\ payload = JDict(<< <<K_data, L_scenario>>, <<K_detailedTrades, JList(<<>>)>> >>)

-----------------------------------------------------------------------------
(* Properties of the table *)

AllKeys(recs) == UNION {Range(Keys(recs[i])) : i \in 1..Len(recs)}

\* where key k appears first: <<record, position in the record>>
FirstSeen(recs, k) ==
    LET i == Least({x \in 1..Len(recs) : k \in Range(Keys(recs[x]))})
    IN  <<i, IndexOf(Keys(recs[i]), k)>>

Before(a, b) == a[1] < b[1] \/ (a[1] = b[1] /\ a[2] < b[2])

\* the written cell shows the record's value (a number may have changed type)
Shows(c, v) ==
    \/ c.value = v
    \/ c.value.k \in {"int", "float"} /\ v.k \in {"int", "float"}
       /\ PyFloat(c.value).n = PyFloat(v).n

\* C8: the table's header is the union of the keys of all records in order of
\* first appearance, there is one data row per record in record order, and a
\* cell is empty where the record lacks the column.
C8_HeaderIsFirstAppearanceUnion ==
    df.built =>
        LET recs == rows.items
            hdr == df.columns
            ws == to_excel(df)
        IN  /\ Range(hdr) = AllKeys(recs)
            /\ \A a, b \in 1..Len(hdr) :
                   a < b => Before(FirstSeen(recs, hdr[a]), FirstSeen(recs, hdr[b]))
            /\ max_row(ws) = Len(recs) + 1
            /\ \A j \in 1..Len(hdr) : ws.rows[1][j].value = JStr(hdr[j])
            /\ \A i \in 1..Len(recs) : \A j \in 1..Len(hdr) :
                   IF hdr[j] \in Range(Keys(recs[i])) /\ DictGet(recs[i], hdr[j]) # None
                   THEN Shows(ws.rows[i + 1][j], DictGet(recs[i], hdr[j]))
                   ELSE ws.rows[i + 1][j].value = None

\* records {a:1,b:2},{b:3,c:4}: header [a,b,c], the a cell of the second
\* record's row is empty
C8_Witness ==
    /\ file.state = "unformatted"
    /\ rows = L_ab
    /\ df.columns = <<H_a, H_b, H_c>>
    /\ file.ws.rows[3][1].value = None
    /\ file.ws.rows[3][2].value = JInt(3)
    /\ file.ws.rows[2][1].value = JFloat(1 * Scale)

-----------------------------------------------------------------------------
(* Properties of the order of the stages *)

\* the stages every completed run goes through, in order; the GET of the
\* fallback comes, when it comes, right after the POST
StageOrder ==
    <<"import", "makedirs", "post", "raise_for_status", "json", "extract_rows",
      "check_rows", "dataframe", "to_excel", "prettify", "print">>

IsNotGet(stage) == stage # "get"

\* the skipped formatting pass stands where the formatting pass stands
Slot(stage) == IF stage = "prettify_skipped" THEN "prettify" ELSE stage

\* C9: the stages run in the order fetch, extract, construct, format, each at
\* most once and each only after every stage before it completed (the GET
\* alone is optional); a file exists only after a non-empty row-set was
\* extracted, is formatted only after it was written, and the one status line,
\* with the row count, is printed only after the formatting ran or was skipped.
C9_StagesInOrder ==
    /\ LET done == SelectSeq(trace, IsNotGet)
       IN  /\ Len(done) <= Len(StageOrder)
           /\ \A i \in 1..Len(done) : Slot(done[i]) = StageOrder[i]
    /\ \A i \in 1..Len(trace) :
           trace[i] = "get" =>
               /\ i > 1 /\ trace[i - 1] = "post"
               /\ requests[1].status # StatusOK
    /\ file.state # "none" => (Done("check_rows") /\ rows.items # <<>> /\ df.built)
    /\ (file.state = "formatted" \/ error = "FormatError") => Done("to_excel")
    /\ Len(out) <= 1
    /\ out # <<>> =>
           /\ Done("prettify") \/ Done("prettify_skipped")
           /\ out[1].rows = Len(rows.items)
           /\ file.state \in {"formatted", "unformatted"}

\* a run with the GET fallback that wrote, formatted and reported
C9_Witness ==
    /\ pc = "done"
    /\ Done("get")
    /\ Done("prettify")
    /\ file.state = "formatted"
    /\ Len(out) = 1

-----------------------------------------------------------------------------
(* Properties of the formatting pass *)

EqualsIgnoringCase(a, b) ==
    /\ Len(a) = Len(b)
    /\ \A i \in 1..Len(a) :
           \/ a[i] = b[i]
           \/ \E k \in 1..Len(UpperLetters) : {a[i], b[i]} = {UpperLetters[k], LowerLetters[k]}

IsPercentHeader(h) == \E name \in PercentNames : EqualsIgnoringCase(h, name)

\* C6: in a column whose header equals one of the four percentage names,
\* ignoring case, every populated data cell whose value converts to a number
\* holds that number divided by 100 with the format 0.00%, and every other
\* cell of the column is as written; in the other columns no value changes.
C6_PercentColumns ==
    file.state = "formatted" =>
        LET before == to_excel(df)
            after == file.ws
        IN  \A i \in 2..max_row(before) : \A j \in 1..NumCols(before) :
                LET b == before.rows[i][j]
                    a == after.rows[i][j]
                IN  IF IsPercentHeader(df.columns[j])
                    THEN IF b.value # None /\ PyFloat(b.value).ok
                         THEN /\ a.value.k = "float"
                              /\ a.value.n * 100 = PyFloat(b.value).n
                              /\ a.number_format = "0.00%"
                         ELSE a = b
                    ELSE a.value = b.value

\* -7.97 became -0.0797 with the percentage format, "N/A" stayed "N/A", the
\* empty cell stayed empty
C6_Witness ==
    /\ file.state = "formatted"
    /\ rows = L_trades
    /\ df.columns[2] = H_changePercentage
    /\ file.ws.rows[2][2].value = JFloat(0 - 797)
    /\ file.ws.rows[2][2].number_format = "0.00%"
    /\ file.ws.rows[3][2].value = JStr(T_NA)
    /\ file.ws.rows[3][2].number_format = "General"
    /\ file.ws.rows[4][2].value = None

SetMax(S) == IF S = {} THEN 0 ELSE CHOOSE x \in S : \A y \in S : y <= x

Clamp(x, lo, hi) == IF x < lo THEN lo ELSE IF x > hi THEN hi ELSE x

\* the textual lengths of the non-empty cells of column j in rows lo..hi
TextLens(ws, j, lo, hi) ==
    {StrLen(ws.rows[i][j].value) : i \in {x \in lo..hi : ws.rows[x][j].value # None}}

\* C7, as claimed: the width of a column is clamp(M + 2, 10, 45) with M the
\* longest text among the non-empty cells of its first 2000 data rows.
C7_WidthFromDataRows ==
    file.state = "formatted" =>
        LET before == to_excel(df)
        IN  \A j \in 1..NumCols(before) :
                file.ws.width[j] =
                    Clamp(SetMax(TextLens(before, j, 2, Min(max_row(before), 2001))) + 2, 10, 45)

\* C7, amended: the width of a column is clamp(M + 2, 10, 45) with M the
\* longest text among the non-empty cells of the first 2000 cells of the
\* column, the header cell being the first of them; so it lies in [10, 45].
C7_WidthFromFirstCells ==
    file.state = "formatted" =>
        LET before == to_excel(df)
        IN  \A j \in 1..NumCols(before) :
                /\ file.ws.width[j] =
                       Clamp(SetMax(TextLens(before, j, 1, Min(max_row(before), 2000))) + 2, 10, 45)
                /\ file.ws.width[j] >= 10
                /\ file.ws.width[j] <= 45

\* a sheet longer than the cap whose only long text lies past the cap: the
\* header and the scanned cells have at most 3 characters, the width is 10
C7_Witness ==
    /\ file.state = "formatted"
    /\ max_row(file.ws) > 2000
    /\ df.columns = <<H_a>>
    /\ \E i \in 2001..max_row(file.ws) : StrLen(file.ws.rows[i][1].value) = 30
    /\ file.ws.width[1] = 10

====
